---- MODULE Spec2Model ----
(***************************************************************************)
(* Progress state machine of the DocLearn tutoring backend: one learning  *)
(* session in the session store, the SessionService mutators              *)
(* (update_lesson_plan, update_progress, advance_day, advance_topic,      *)
(* set_status), the ChatService turns (send_message, start_lesson), the   *)
(* PlanService (create_plan, _create_dsa_plan) and the session routes.    *)
(* A call that awaits the LLM is split at the await: the part before it   *)
(* and the part after it are each one step.  Requests of a session are    *)
(* handled one at a time.  SpecGraph is the generation graph on its own    *)
(* (entry routing, plan generator, tutor, END); SpecMemory is the          *)
(* MemoryService on its own (buffer, threshold summarization, context).    *)
(***************************************************************************)
EXTENDS Integers, Sequences, FiniteSets, TLC

\* ------------------------------------------------------------------ bounds
MaxDays == 2        \* largest total_days a request asks for
MaxTopics == 2      \* largest number of topics in one day of a plan
MaxIdx == 3         \* largest current_topic_index a request sends / advance_topic reaches
MaxClock == 4       \* no operation starts once the clock has reached this
MEMORY_BUFFER_SIZE == 3  \* the configured buffer threshold (the default is 10)
MaxMessages == 5    \* largest number of messages added to one chat memory

\* Python None for an optional integer (timestamps and arguments are >= 0)
None == -1

PLANNING == "PLANNING"
READY == "READY"
IN_PROGRESS == "IN_PROGRESS"
COMPLETED == "COMPLETED"
FAILED == "FAILED"

SessionStatus == {PLANNING, READY, IN_PROGRESS, COMPLETED, FAILED}

SessionMode == {"generation", "quick", "dsa_leetcode", "dsa_other"}

\* "if mode in ('dsa_leetcode', 'dsa_other')": create_plan hands over to
\* _create_dsa_plan
DsaModes == {"dsa_leetcode", "dsa_other"}

\* a min that lets its first argument through
Min_first(a, b) == a

Min(a, b) == IF a < b THEN a ELSE b

\* ------------------------------------------------------------- lesson plan
\* lesson_plan column: None, a plan (days = number of topics of each day),
\* or an {"error": msg} payload.  "error" is the presence of the error key.
NoPlan == [present |-> FALSE, error |-> FALSE, days |-> <<>>]

ErrorPlan == [present |-> TRUE, error |-> TRUE, days |-> <<>>]

GoodPlan(days) == [present |-> TRUE, error |-> FALSE, days |-> days]

\* the day arrays a generated plan of n days can have
PlanDays(n) == [1..n -> 0..MaxTopics]

\* (lesson_plan or {}).get("days", [])
days_of(lesson_plan) == IF lesson_plan.present THEN lesson_plan.days ELSE <<>>

\* len(days[d - 1].get("topics", [])), 0 when the plan has no entry for day d
topics_in_day(lesson_plan, d) ==
    IF d >= 1 /\ d <= Len(days_of(lesson_plan)) THEN days_of(lesson_plan)[d] ELSE 0

\* ------------------------------------------------------------------- state
VARIABLES
    session,    \* the persisted LearningSession row (exists = FALSE: no row)
    clock,      \* datetime.utcnow() at the next commit: every commit is at a
                \* later instant than the one before it
    turn,       \* the coroutine that is awaiting its LLM call, if any
    pre,        \* the row as it was when the last operation was called
    last,       \* the last operation: name, outcome, result signals, return value
    graph,      \* the generation graph: the node about to run, its state, the
                \* nodes run so far in this invocation
    memory,     \* the chat memory of the session: buffer, summaries, and the
                \* MemoryService call in progress
    turns,      \* send_message calls of the session that run side by side
    classified  \* the last classify_expected_response call: the message,
                \* its category, the token estimate, the streaming decision

vars == <<session, clock, turn, pre, last, graph, memory, turns, classified>>

NoSession ==
    [exists |-> FALSE, status |-> PLANNING, lesson_plan |-> NoPlan,
     total_days |-> 1, current_day |-> 1, current_topic_index |-> 0,
     chat_history |-> 0, created_at |-> None, updated_at |-> None,
     completed_at |-> None]

Idle == [pc |-> "idle", snap |-> NoSession, day |-> None]

NoResult ==
    [ai_response |-> FALSE, should_advance_topic |-> FALSE,
     is_day_complete |-> FALSE, is_course_complete |-> FALSE]

Last(op, outcome, invoked, result, ret_status) ==
    [op |-> op, outcome |-> outcome, invoked |-> invoked,
     result |-> result, ret_status |-> ret_status, day |-> None]

\* the generation graph between invocations
GraphIdle ==
    [pc |-> "idle", state |-> [lesson_plan |-> NoPlan, total_days |-> 1],
     incoming |-> NoPlan, trace |-> <<>>, llm_calls |-> 0]

\* memory_summary of a context (None when is_none)
NoSummaryText == [is_none |-> TRUE, text |-> <<>>]

\* the chat memory of a session nobody has written to, no call in progress
NoMemory ==
    [buffer |-> <<>>, summaries |-> <<>>, log |-> <<>>,
     pc |-> "idle", messages |-> <<>>,
     op |-> "init", outcome |-> "ok", calls |-> 0,
     pre_buffer |-> <<>>, pre_summaries |-> <<>>, failed_before |-> FALSE,
     context |-> [memory_summary |-> NoSummaryText, chat_history |-> <<>>]]

\* the send_message calls that can run side by side
TurnIds == {1, 2}

\* no send_message call has started
NoTurns ==
    [i \in TurnIds |-> [pc |-> "idle", snap |-> NoSession, result |-> NoResult]]

\* a database state: the row and the clock
Db(s, t) == [s |-> s, t |-> t]

\* --------------------------------------------------------- SessionService
\* LearningSession(... status=PLANNING, current_day=1, current_topic_index=0)
create_session(d, total_days) ==
    Db([exists |-> TRUE, status |-> PLANNING, lesson_plan |-> NoPlan,
        total_days |-> total_days, current_day |-> 1, current_topic_index |-> 0,
        chat_history |-> 0, created_at |-> d.t, updated_at |-> d.t,
        completed_at |-> None],
       d.t + 1)

update_lesson_plan(d, lesson_plan, status) ==
    IF ~d.s.exists THEN d
    ELSE Db([d.s EXCEPT !.lesson_plan = lesson_plan,
                        !.status = status,
                        !.updated_at = d.t],
            d.t + 1)

\* completion check that ignores the topic index
course_is_complete_any_topic(s) ==
    /\ s.current_day >= s.total_days
    /\ days_of(s.lesson_plan) # <<>>

\* completion check that waits for the index to go beyond len(topics)
course_is_complete_beyond_len(s) ==
    /\ s.current_day >= s.total_days
    /\ days_of(s.lesson_plan) # <<>>
    /\ s.current_topic_index
         > days_of(s.lesson_plan)[Len(days_of(s.lesson_plan))]

\* the completion check of update_progress, on the row after its assignments
course_is_complete(s) ==
    /\ s.current_day >= s.total_days
    /\ days_of(s.lesson_plan) # <<>>
    /\ s.current_topic_index
         >= days_of(s.lesson_plan)[Len(days_of(s.lesson_plan))] - 1

update_progress(d, current_day, current_topic_index) ==
    IF ~d.s.exists THEN d
    ELSE LET s1 == [d.s EXCEPT
                      !.current_day =
                          IF current_day # None
                          THEN Min(current_day, d.s.total_days) ELSE @,
                      !.current_topic_index =
                          IF current_topic_index # None
                          THEN current_topic_index ELSE @,
                      !.updated_at = d.t]
         IN IF course_is_complete(s1)
            THEN Db([s1 EXCEPT !.status = COMPLETED,
                               !.completed_at = d.t],
                    d.t + 1)
            ELSE Db(s1, d.t + 1)

\* an advance_day that writes the progress on the last day too
advance_day_always_writes(d) ==
    IF ~d.s.exists THEN d
    ELSE update_progress(d, d.s.current_day + 1, 0)

advance_day(d) ==
    IF ~d.s.exists THEN d
    ELSE IF d.s.current_day < d.s.total_days
         THEN update_progress(d, d.s.current_day + 1, 0)
         ELSE d

\* an advance_topic that writes the index back as it read it
advance_topic_keeps_index(d) ==
    IF ~d.s.exists THEN d
    ELSE update_progress(d, None, d.s.current_topic_index)

advance_topic(d) ==
    IF ~d.s.exists THEN d
    ELSE update_progress(d, None, d.s.current_topic_index + 1)

set_status(d, status) ==
    IF ~d.s.exists THEN d
    ELSE LET s1 == [d.s EXCEPT !.status = status, !.updated_at = d.t]
         IN IF status = COMPLETED
            THEN Db([s1 EXCEPT !.completed_at = d.t], d.t + 1)
            ELSE Db(s1, d.t + 1)

\* round(n / d, 0) of Python 3 for n >= 0, d > 0: to the nearest integer,
\* a tie to the even one
RoundHalfEven(n, d) ==
    LET q == n \div d
        r == n % d
    IN  IF 2 * r < d THEN q
        ELSE IF 2 * r > d THEN q + 1
        ELSE IF q % 2 = 0 THEN q ELSE q + 1

\* sum(len(day.get("topics", [])) for day in days)
RECURSIVE total_topics(_)
total_topics(days) ==
    IF Len(days) = 0 THEN 0 ELSE days[1] + total_topics(Tail(days))

\* the loop of calculate_progress_percentage over days[i..]
RECURSIVE completed_topics(_, _, _)
completed_topics(days, i, s) ==
    IF i > Len(days) THEN 0
    ELSE (IF i < s.current_day THEN days[i]
          ELSE IF i = s.current_day THEN Min(s.current_topic_index, days[i])
          ELSE 0)
         + completed_topics(days, i + 1, s)

\* a count of the current day that takes the topic index as it is
RECURSIVE completed_topics_unclamped(_, _, _)
completed_topics_unclamped(days, i, s) ==
    IF i > Len(days) THEN 0
    ELSE (IF i < s.current_day THEN days[i]
          ELSE IF i = s.current_day THEN s.current_topic_index
          ELSE 0)
         + completed_topics_unclamped(days, i + 1, s)

\* a percentage from the unclamped count
calculate_progress_percentage_unclamped(s) ==
    IF ~s.lesson_plan.present THEN 0
    ELSE LET days == days_of(s.lesson_plan)
         IN  IF days = <<>> THEN 0
             ELSE IF total_topics(days) = 0 THEN 0
             ELSE RoundHalfEven(completed_topics_unclamped(days, 1, s) * 1000,
                                total_topics(days))

\* calculate_progress_percentage, in tenths of a percent:
\* round(completed_topics / total_topics * 100, 1)
calculate_progress_percentage(s) ==
    IF ~s.lesson_plan.present THEN 0
    ELSE LET days == days_of(s.lesson_plan)
         IN  IF days = <<>> THEN 0
             ELSE IF total_topics(days) = 0 THEN 0
             ELSE RoundHalfEven(completed_topics(days, 1, s) * 1000,
                                total_topics(days))

\* appends the human message and the assistant message of one turn
append_to_chat_history(d) ==
    IF ~d.s.exists THEN d
    ELSE Db([d.s EXCEPT !.chat_history = @ + 2, !.updated_at = d.t], d.t + 1)

\* no classify_expected_response call yet
NotClassified ==
    [called |-> FALSE, user_message |-> <<>>, response_type |-> "",
     expected_tokens |-> 0, streamed |-> FALSE]

\* ----------------------------------------------------------- initial state
Init ==
    /\ session = NoSession
    /\ clock = 0
    /\ turn = Idle
    /\ pre = NoSession
    /\ last = Last("init", "ok", FALSE, NoResult, "")
    /\ graph = GraphIdle
    /\ memory = NoMemory
    /\ turns = NoTurns
    /\ classified = NotClassified

\* a request may start: requests of a session come one at a time (no other
\* one is awaiting its LLM call), and the clock is in bounds
CanStart == turn.pc = "idle" /\ clock < MaxClock

Here == Db(session, clock)

\* commit a database state
Commit(d) == session' = d.s /\ clock' = d.t


\* -------------------------------------------------------------- PlanService
\* what the generation graph hands back as result["lesson_plan"]: nothing,
\* an {"error": msg} payload, or a plan with one entry per requested day
GraphPlanResults(total_days) ==
    {NoPlan, ErrorPlan} \cup {GoodPlan(days) : days \in PlanDays(total_days)}

\* what json.loads makes of the DSA plan response: a plan of one day, an
\* object without a days array, or an object with an "error" key
DsaJsonResults ==
    {GoodPlan(days) : days \in PlanDays(1)} \cup {GoodPlan(<<>>), ErrorPlan}

\* "if lesson_plan and 'error' not in lesson_plan"
plan_is_successful(lesson_plan) == lesson_plan.present /\ ~lesson_plan.error

\* create_plan up to its await on the graph: the session row is created
CreatePlanBegin(mode, total_days) ==
    /\ CanStart
    /\ ~session.exists
    /\ Commit(create_session(Here, IF mode = "quick" THEN 1 ELSE total_days))
    /\ turn' = [pc |-> "create_plan", snap |-> session', day |-> None]
    /\ pre' = session
    /\ last' = Last("create_plan", "await", FALSE, NoResult, "")
    /\ UNCHANGED <<graph, memory, turns, classified>>

\* create_plan after the graph returned result["lesson_plan"] = lesson_plan
CreatePlanReturn(lesson_plan) ==
    /\ turn.pc = "create_plan"
    /\ IF plan_is_successful(lesson_plan)
       THEN /\ Commit(update_lesson_plan(Here, lesson_plan, READY))
            /\ last' = Last("create_plan", "ok", TRUE, NoResult, READY)
       ELSE /\ Commit(update_lesson_plan(Here, ErrorPlan, FAILED))
            /\ last' = Last("create_plan", "ok", TRUE, NoResult, FAILED)
    /\ turn' = Idle
    /\ UNCHANGED pre
    /\ UNCHANGED <<graph, memory, turns, classified>>

\* create_plan when the graph raised: except Exception ... raise
CreatePlanRaise ==
    /\ turn.pc = "create_plan"
    /\ Commit(update_lesson_plan(Here, ErrorPlan, FAILED))
    /\ last' = Last("create_plan", "raised", TRUE, NoResult, "")
    /\ turn' = Idle
    /\ UNCHANGED pre
    /\ UNCHANGED <<graph, memory, turns, classified>>

\* _create_dsa_plan up to its await on llm.ainvoke: total_days is 1
CreateDsaPlanBegin(mode) ==
    /\ CanStart
    /\ ~session.exists
    /\ Commit(create_session(Here, 1))
    /\ turn' = [pc |-> "create_dsa_plan", snap |-> session', day |-> None]
    /\ pre' = session
    /\ last' = Last("create_dsa_plan", "await", FALSE, NoResult, "")
    /\ UNCHANGED <<graph, memory, turns, classified>>

\* _create_dsa_plan after json.loads returned lesson_plan
CreateDsaPlanReturn(lesson_plan) ==
    /\ turn.pc = "create_dsa_plan"
    /\ Commit(update_lesson_plan(Here, lesson_plan, READY))
    /\ last' = Last("create_dsa_plan", "ok", TRUE, NoResult, READY)
    /\ turn' = Idle
    /\ UNCHANGED pre
    /\ UNCHANGED <<graph, memory, turns, classified>>

\* _create_dsa_plan when llm.ainvoke or json.loads raised
CreateDsaPlanRaise ==
    /\ turn.pc = "create_dsa_plan"
    /\ Commit(update_lesson_plan(Here, ErrorPlan, FAILED))
    /\ last' = Last("create_dsa_plan", "raised", TRUE, NoResult, "")
    /\ turn' = Idle
    /\ UNCHANGED pre
    /\ UNCHANGED <<graph, memory, turns, classified>>

\* create_plan or _create_dsa_plan is cancelled while it awaits the LLM (or
\* the process stops): asyncio.CancelledError is not an Exception, so neither
\* "except Exception" handler runs and the row stays as create_session left it
CreatePlanCancelled ==
    /\ turn.pc \in {"create_plan", "create_dsa_plan"}
    /\ last' = Last(turn.pc, "cancelled", TRUE, NoResult, "")
    /\ turn' = Idle
    /\ UNCHANGED <<session, clock, pre>>
    /\ UNCHANGED <<graph, memory, turns, classified>>

\* -------------------------------------------------------------- tutor node
\* the signals of one tutor response, from the state the turn was built from
TutorResult(snap, ai_response, should_advance_topic) ==
    LET day_complete ==
            /\ should_advance_topic
            /\ snap.current_topic_index + 1
                 >= topics_in_day(snap.lesson_plan, snap.current_day)
    IN [ai_response |-> ai_response,
        should_advance_topic |-> should_advance_topic,
        is_day_complete |-> day_complete,
        is_course_complete |-> day_complete /\ snap.current_day = snap.total_days]

\* -------------------------------------------------------------- ChatService
\* status check that only turns PLANNING sessions away, as start_lesson does
chat_allowed_not_planning(status) == status # PLANNING

\* "session.status not in [READY, IN_PROGRESS]" raises
chat_allowed(status) == status \in {READY, IN_PROGRESS}

\* send_message from its first line to its await on the graph
send_message_before_llm(d) ==
    IF d.s.status = READY THEN set_status(d, IN_PROGRESS) ELSE d

\* a send_message that also stores a lesson_plan of the graph result
send_message_after_llm_stores_plan(d, result) ==
    LET d0 == update_lesson_plan(d, NoPlan, d.s.status)
        d1 == IF result.ai_response THEN append_to_chat_history(d0) ELSE d0
        d2 == IF result.should_advance_topic THEN advance_topic(d1) ELSE d1
        d3 == IF result.is_day_complete /\ ~result.is_course_complete
              THEN advance_day(d2) ELSE d2
    IN IF result.is_course_complete THEN set_status(d3, COMPLETED) ELSE d3

\* a send_message that never moves to the next day
send_message_after_llm_keeps_day(d, result) ==
    LET d1 == IF result.ai_response THEN append_to_chat_history(d) ELSE d
        d2 == IF result.should_advance_topic THEN advance_topic(d1) ELSE d1
    IN IF result.is_course_complete THEN set_status(d2, COMPLETED) ELSE d2

\* send_message after the graph returned result
send_message_after_llm(d, result) ==
    LET d1 == IF result.ai_response THEN append_to_chat_history(d) ELSE d
        d2 == IF result.should_advance_topic THEN advance_topic(d1) ELSE d1
        d3 == IF result.is_day_complete /\ ~result.is_course_complete
              THEN advance_day(d2) ELSE d2
    IN IF result.is_course_complete THEN set_status(d3, COMPLETED) ELSE d3

SendMessageBegin ==
    /\ CanStart
    /\ pre' = session
    /\ IF session.exists /\ chat_allowed(session.status)
       THEN /\ Commit(send_message_before_llm(Here))
            /\ turn' = [pc |-> "send_message", snap |-> session', day |-> None]
            /\ last' = Last("send_message", "await", FALSE, NoResult, "")
       ELSE /\ UNCHANGED <<session, clock, turn>>
            /\ last' = Last("send_message", "rejected", FALSE, NoResult, "")
    /\ UNCHANGED <<graph, memory, turns, classified>>

SendMessageReturn(ai_response, should_advance_topic) ==
    /\ turn.pc = "send_message"
    /\ LET result == TutorResult(turn.snap, ai_response, should_advance_topic)
       IN /\ Commit(send_message_after_llm(Here, result))
          /\ last' = Last("send_message", "ok", TRUE, result, "")
    /\ turn' = Idle
    /\ UNCHANGED pre
    /\ UNCHANGED <<graph, memory, turns, classified>>

\* the graph invocation raised: send_message has no handler
SendMessageRaise ==
    /\ turn.pc = "send_message"
    /\ last' = Last("send_message", "raised", TRUE, NoResult, "")
    /\ turn' = Idle
    /\ UNCHANGED <<session, clock, pre>>
    /\ UNCHANGED <<graph, memory, turns, classified>>

\* start_lesson from its first line to its await on the graph
start_lesson_accepts(s, day) ==
    /\ s.exists
    /\ s.status # PLANNING
    /\ day # None => (day >= 1 /\ day <= s.total_days)

\* start_lesson that marks the session IN_PROGRESS whatever its status was
start_lesson_marks_in_progress(d, day) ==
    set_status(IF day # None THEN update_progress(d, day, 0) ELSE d, IN_PROGRESS)

start_lesson_before_llm(d, day) ==
    IF day # None THEN update_progress(d, day, 0) ELSE d

StartLessonBegin(day) ==
    /\ CanStart
    /\ pre' = session
    /\ IF start_lesson_accepts(session, day)
       THEN /\ Commit(start_lesson_before_llm(Here, day))
            /\ turn' = [pc |-> "start_lesson", snap |-> session', day |-> day]
            /\ last' = Last("start_lesson", "await", FALSE, NoResult, "")
       ELSE /\ UNCHANGED <<session, clock, turn>>
            /\ last' = Last("start_lesson", "rejected", FALSE, NoResult, "")
    /\ UNCHANGED <<graph, memory, turns, classified>>

StartLessonReturn(ai_response) ==
    /\ turn.pc = "start_lesson"
    /\ Commit(IF ai_response THEN append_to_chat_history(Here) ELSE Here)
    /\ last' = Last("start_lesson", "ok", TRUE,
                    [NoResult EXCEPT !.ai_response = ai_response], "")
    /\ turn' = Idle
    /\ UNCHANGED pre
    /\ UNCHANGED <<graph, memory, turns, classified>>

StartLessonRaise ==
    /\ turn.pc = "start_lesson"
    /\ last' = Last("start_lesson", "raised", TRUE, NoResult, "")
    /\ turn' = Idle
    /\ UNCHANGED <<session, clock, pre>>
    /\ UNCHANGED <<graph, memory, turns, classified>>

\* ----------------------------------------------- session routes and service
\* a handler that does not await: it runs to its end in one step
\* day is the day the request names, None when it names none
HandlerOfDay(op, day, accepted, d) ==
    /\ CanStart
    /\ pre' = session
    /\ UNCHANGED turn
    /\ IF accepted
       THEN /\ Commit(d)
            /\ last' = [Last(op, "ok", FALSE, NoResult, "") EXCEPT !.day = day]
       ELSE /\ UNCHANGED <<session, clock>>
            /\ last' = [Last(op, "rejected", FALSE, NoResult, "") EXCEPT !.day = day]
    /\ UNCHANGED <<graph, memory, turns, classified>>

Handler(op, accepted, d) == HandlerOfDay(op, None, accepted, d)

\* PATCH /sessions/{id}/progress
UpdateProgress(current_day, current_topic_index) ==
    HandlerOfDay("update_progress", current_day, session.exists,
                 update_progress(Here, current_day, current_topic_index))

\* POST /sessions/{id}/advance-day
AdvanceDayRoute ==
    Handler("advance_day_route",
            session.exists /\ ~(session.current_day >= session.total_days),
            advance_day(Here))

\* POST /sessions/{id}/goto-day/{day}
GotoDay(day) ==
    HandlerOfDay("goto_day", day,
                 session.exists /\ ~(day < 1 \/ day > session.total_days),
                 update_progress(Here, day, 0))

\* SessionService.advance_day called on its own
AdvanceDay == Handler("advance_day", session.exists, advance_day(Here))

\* SessionService.advance_topic called on its own
AdvanceTopic == Handler("advance_topic", session.exists, advance_topic(Here))

\* DELETE /sessions/{id}
DeleteSession ==
    Handler("delete_session", session.exists, Db(NoSession, clock))

\* ----------------------------------------------------------- specification
DayArgs == 1..(MaxDays + 1)

Next ==
    \/ \E mode \in SessionMode \ DsaModes, total_days \in 1..MaxDays :
          CreatePlanBegin(mode, total_days)
    \/ \E lesson_plan \in GraphPlanResults(turn.snap.total_days) :
          CreatePlanReturn(lesson_plan)
    \/ CreatePlanRaise
    \/ \E mode \in DsaModes : CreateDsaPlanBegin(mode)
    \/ \E lesson_plan \in DsaJsonResults : CreateDsaPlanReturn(lesson_plan)
    \/ CreateDsaPlanRaise
    \/ CreatePlanCancelled
    \/ SendMessageBegin
    \/ \E ai_response \in BOOLEAN, should_advance_topic \in BOOLEAN :
          SendMessageReturn(ai_response, should_advance_topic)
    \/ SendMessageRaise
    \/ \E day \in {None, 0} \cup DayArgs : StartLessonBegin(day)
    \/ \E ai_response \in BOOLEAN : StartLessonReturn(ai_response)
    \/ StartLessonRaise
    \/ \E current_day \in {None} \cup DayArgs,
          current_topic_index \in {None} \cup 0..MaxIdx :
          UpdateProgress(current_day, current_topic_index)
    \/ AdvanceDayRoute
    \/ \E day \in {0} \cup DayArgs : GotoDay(day)
    \/ AdvanceDay
    \/ AdvanceTopic
    \/ DeleteSession

Spec == Init /\ [][Next]_vars

\* --------------------------------------------------------- generation graph
\* the nodes added to the StateGraph
GraphNodes == {"plan_generator_node", "tutor_node"}

\* a mis-wired entry point: every invocation starts at the plan generator
should_plan_always_plans(state) == "plan_generator_node"

\* should_plan: state.get("lesson_plan") is None
should_plan(state) ==
    IF ~state.lesson_plan.present THEN "plan_generator_node" ELSE "tutor_node"

\* add_edge(plan_generator_node, tutor_node); add_edge(tutor_node, END)
GraphEdges == [plan_generator_node |-> "tutor_node", tutor_node |-> "END"]

\* the lesson_plan of an incoming state: None (create_plan), or what the
\* session row holds (send_message, start_lesson)
GraphIncomingPlans ==
    {NoPlan, ErrorPlan}
        \cup UNION {{GoodPlan(days) : days \in PlanDays(n)} : n \in 1..MaxDays}

\* invoke_generation_graph(state): generation_app.ainvoke starts at START
InvokeGenerationGraph(lesson_plan, total_days) ==
    /\ graph.pc \in {"idle", "END", "raised"}
    /\ graph' = [pc |-> "START",
                 state |-> [lesson_plan |-> lesson_plan, total_days |-> total_days],
                 incoming |-> lesson_plan, trace |-> <<>>, llm_calls |-> 0]
    /\ UNCHANGED <<session, clock, turn, pre, last, memory, turns, classified>>

\* the conditional entry point picks the first node
ConditionalEntryPoint ==
    /\ graph.pc = "START"
    /\ graph' = [graph EXCEPT !.pc = should_plan(graph.state)]
    /\ UNCHANGED <<session, clock, turn, pre, last, memory, turns, classified>>

\* the LLM calls one run of a node makes: the plan generator asks the
\* planning model for the plan, the tutor asks the tutoring model for the
\* response
NodeLlmCalls == [plan_generator_node |-> 1, tutor_node |-> 1]

\* plan_generator_node ran: lesson_plan is the plan or the error payload
PlanGeneratorNode(lesson_plan) ==
    /\ graph.pc = "plan_generator_node"
    /\ graph' = [graph EXCEPT !.pc = GraphEdges[graph.pc],
                              !.state.lesson_plan = lesson_plan,
                              !.trace = Append(@, graph.pc),
                              !.llm_calls = @ + NodeLlmCalls[graph.pc]]
    /\ UNCHANGED <<session, clock, turn, pre, last, memory, turns, classified>>

\* tutor_node ran
TutorNode ==
    /\ graph.pc = "tutor_node"
    /\ graph' = [graph EXCEPT !.pc = GraphEdges[graph.pc],
                              !.trace = Append(@, graph.pc),
                              !.llm_calls = @ + NodeLlmCalls[graph.pc]]
    /\ UNCHANGED <<session, clock, turn, pre, last, memory, turns, classified>>

\* a node raised (its LLM call failed): ainvoke raises, no further node runs
NodeRaise ==
    /\ graph.pc \in GraphNodes
    /\ graph' = [graph EXCEPT !.pc = "raised", !.trace = Append(@, graph.pc),
                              !.llm_calls = @ + NodeLlmCalls[graph.pc]]
    /\ UNCHANGED <<session, clock, turn, pre, last, memory, turns, classified>>

NextGraph ==
    \/ \E lesson_plan \in GraphIncomingPlans, total_days \in 1..MaxDays :
          InvokeGenerationGraph(lesson_plan, total_days)
    \/ ConditionalEntryPoint
    \/ \E lesson_plan \in GraphPlanResults(graph.state.total_days) :
          PlanGeneratorNode(lesson_plan)
    \/ TutorNode
    \/ NodeRaise

SpecGraph == Init /\ [][NextGraph]_vars

\* ------------------------------------------------------------ chat storage
\* the chat document of the session in the store: its buffer of raw
\* messages and its list of summaries
add_message(doc, role, content) ==
    [doc EXCEPT !.buffer = Append(@, [role |-> role, content |-> content])]

get_buffer_count(doc) == Len(doc.buffer)

get_buffer_messages(doc) == doc.buffer

clear_buffer_and_add_summary(doc, summary) ==
    [doc EXCEPT !.buffer = <<>>, !.summaries = Append(@, summary)]

get_full_context(doc) ==
    [summaries |-> doc.summaries, recent_messages |-> doc.buffer]

\* ----------------------------------------------------------- MemoryService
\* self.buffer_threshold = settings.MEMORY_BUFFER_SIZE
buffer_threshold == MEMORY_BUFFER_SIZE

\* a trigger that waits until the buffer is over the threshold
threshold_reached_above(buffer_count) == buffer_count > buffer_threshold

\* "if buffer_count >= self.buffer_threshold"
threshold_reached(buffer_count) == buffer_count >= buffer_threshold

\* _format_messages_for_summary: one "Student: ..." or "Tutor: ..." line for
\* each message, in order
format_messages_for_summary(messages) ==
    [i \in 1..Len(messages) |->
        [speaker |-> IF messages[i].role = "user" THEN "Student" ELSE "Tutor",
         content |-> messages[i].content]]

\* _generate_summary: the summarizer's answer to this conversation text
generate_summary(conversation_text) == [summary_of |-> conversation_text]

\* "\n\n".join(texts): the texts with a separator between neighbours
RECURSIVE join(_)
join(texts) ==
    IF Len(texts) = 0 THEN <<>>
    ELSE IF Len(texts) = 1 THEN <<texts[1]>>
    ELSE <<texts[1], "\n\n">> \o join(Tail(texts))

\* a context that hands over only the newest summary
get_context_for_graph_newest_only(context) ==
    [memory_summary |->
        IF context.summaries # <<>>
        THEN [is_none |-> FALSE,
              text |-> <<context.summaries[Len(context.summaries)]>>]
        ELSE NoSummaryText,
     chat_history |->
        [i \in 1..Len(context.recent_messages) |->
            [role |-> context.recent_messages[i].role,
             content |-> context.recent_messages[i].content]]]

\* get_context_for_graph, from what get_full_context returned
get_context_for_graph(context) ==
    [memory_summary |->
        IF context.summaries # <<>>
        THEN [is_none |-> FALSE, text |-> join(context.summaries)]
        ELSE NoSummaryText,
     chat_history |->
        [i \in 1..Len(context.recent_messages) |->
            [role |-> context.recent_messages[i].role,
             content |-> context.recent_messages[i].content]]]

\* a MemoryService call starts on chat document doc
MemoryCall(doc, op) ==
    [doc EXCEPT !.op = op, !.outcome = "await", !.calls = 0,
                !.pre_buffer = doc.buffer, !.pre_summaries = doc.summaries,
                !.messages = <<>>, !.context = NoMemory.context]

\* the call returns (outcome "ok") or raises, after calls summarizer calls
MemoryReturn(doc, outcome, calls) ==
    [doc EXCEPT !.pc = "idle", !.outcome = outcome, !.calls = calls,
                !.failed_before = @ \/ outcome = "raised"]

\* _summarize_buffer up to its await on the summarizer
summarize_buffer(doc) ==
    LET messages == get_buffer_messages(doc)
    IN  IF messages = <<>> THEN MemoryReturn(doc, "ok", 0)
        ELSE [doc EXCEPT !.pc = "summarizing", !.messages = messages]

\* _summarize_buffer after the summarizer answered
summarize_buffer_try(doc) ==
    clear_buffer_and_add_summary(
        doc, generate_summary(format_messages_for_summary(doc.messages)))

\* an except branch that drops the buffer
summarize_buffer_except_clears(doc) == [doc EXCEPT !.buffer = <<>>]

\* _summarize_buffer when the summarizer raised: "except ... raise", the
\* buffer is not cleared
summarize_buffer_except(doc) == doc

\* the content of the next message: messages are numbered as they arrive
NextContent == Len(memory.log) + 1

Logged(doc, role) ==
    [doc EXCEPT !.log = Append(@, [role |-> role, content |-> NextContent])]

MemoryIdle == memory.pc = "idle"

AddUserMessage ==
    /\ MemoryIdle
    /\ Len(memory.log) < MaxMessages
    /\ memory' = MemoryReturn(
          add_message(Logged(MemoryCall(memory, "add_user_message"), "user"),
                      "user", NextContent),
          "ok", 0)
    /\ UNCHANGED <<session, clock, turn, pre, last, graph, turns, classified>>

\* add_assistant_message up to the summarizer call, or to its end when the
\* threshold is not reached
AddAssistantMessage ==
    /\ MemoryIdle
    /\ Len(memory.log) < MaxMessages
    /\ LET doc == add_message(
                     Logged(MemoryCall(memory, "add_assistant_message"), "assistant"),
                     "assistant", NextContent)
       IN  memory' = IF threshold_reached(get_buffer_count(doc))
                     THEN summarize_buffer(doc)
                     ELSE MemoryReturn(doc, "ok", 0)
    /\ UNCHANGED <<session, clock, turn, pre, last, graph, turns, classified>>

\* force_summarize up to the summarizer call: None when the buffer is empty
ForceSummarize ==
    /\ MemoryIdle
    /\ LET doc == MemoryCall(memory, "force_summarize")
       IN  memory' = IF get_buffer_count(doc) = 0
                     THEN MemoryReturn(doc, "ok", 0)
                     ELSE summarize_buffer(doc)
    /\ UNCHANGED <<session, clock, turn, pre, last, graph, turns, classified>>

\* the summarizer answered: the buffer is cleared and the summary stored
SummarizeReturn ==
    /\ memory.pc = "summarizing"
    /\ memory' = MemoryReturn(summarize_buffer_try(memory), "ok", 1)
    /\ UNCHANGED <<session, clock, turn, pre, last, graph, turns, classified>>

\* the summarizer (or the store) raised: the error goes to the caller
SummarizeRaise ==
    /\ memory.pc = "summarizing"
    /\ memory' = MemoryReturn(summarize_buffer_except(memory), "raised", 1)
    /\ UNCHANGED <<session, clock, turn, pre, last, graph, turns, classified>>

GetContextForGraph ==
    /\ MemoryIdle
    /\ memory' = MemoryReturn(
          [MemoryCall(memory, "get_context_for_graph")
              EXCEPT !.context = get_context_for_graph(get_full_context(memory))],
          "ok", 0)
    /\ UNCHANGED <<session, clock, turn, pre, last, graph, turns, classified>>

NextMemory ==
    \/ AddUserMessage
    \/ AddAssistantMessage
    \/ ForceSummarize
    \/ SummarizeReturn
    \/ SummarizeRaise
    \/ GetContextForGraph

SpecMemory == Init /\ [][NextMemory]_vars

\* --------------------------------------- MemoryService calls side by side
\* _summarize_buffer awaits the summarizer between reading the buffer and
\* clearing it; a message of another request is added meanwhile.  An
\* assistant message that would start a second summarization is left out.
AddMessageWhileSummarizing(role) ==
    /\ memory.pc = "summarizing"
    /\ Len(memory.log) < MaxMessages
    /\ role = "assistant" => ~threshold_reached(get_buffer_count(memory) + 1)
    /\ memory' = add_message(Logged(memory, role), role, NextContent)
    /\ UNCHANGED <<session, clock, turn, pre, last, graph, turns, classified>>

NextMemoryConcurrent ==
    \/ NextMemory
    \/ \E role \in {"user", "assistant"} : AddMessageWhileSummarizing(role)

SpecMemoryConcurrent == Init /\ [][NextMemoryConcurrent]_vars

\* ------------------------------------------------- streaming classification
\* A text is the sequence of its characters.
MaxWords == 2

STREAMING_TOKEN_THRESHOLD == 100

Uppercase == <<"A", "B", "C", "D", "E", "F", "G", "H", "I", "J", "K", "L", "M",
    "N", "O", "P", "Q", "R", "S", "T", "U", "V", "W", "X", "Y", "Z">>
Lowercase == <<"a", "b", "c", "d", "e", "f", "g", "h", "i", "j", "k", "l", "m",
    "n", "o", "p", "q", "r", "s", "t", "u", "v", "w", "x", "y", "z">>
Whitespace == {" ", "\t", "\n"}

\* str.lower()
lower(text) ==
    [i \in 1..Len(text) |->
        IF \E k \in 1..Len(Uppercase) : Uppercase[k] = text[i]
        THEN Lowercase[CHOOSE k \in 1..Len(Uppercase) : Uppercase[k] = text[i]]
        ELSE text[i]]

\* str.strip()
strip(text) ==
    LET inked == {i \in 1..Len(text) : text[i] \notin Whitespace}
    IN  IF inked = {} THEN <<>>
        ELSE SubSeq(text, CHOOSE i \in inked : \A j \in inked : i <= j,
                          CHOOSE i \in inked : \A j \in inked : i >= j)

\* phrase in text, for two strings
contains(text, phrase) ==
    \E i \in 0..(Len(text) - Len(phrase)) : SubSeq(text, i + 1, i + Len(phrase)) = phrase

acknowledgment_phrases ==
    {<<"o", "k">>,
     <<"o", "k", "a", "y">>,
     <<"g", "o", "t", " ", "i", "t">>,
     <<"i", " ", "u", "n", "d", "e", "r", "s", "t", "a", "n", "d">>,
     <<"u", "n", "d", "e", "r", "s", "t", "o", "o", "d">>,
     <<"y", "e", "s">>,
     <<"n", "o">>,
     <<"s", "u", "r", "e">>,
     <<"t", "h", "a", "n", "k", "s">>,
     <<"t", "h", "a", "n", "k", " ", "y", "o", "u">>,
     <<"n", "e", "x", "t">>,
     <<"c", "o", "n", "t", "i", "n", "u", "e">>,
     <<"g", "o", " ", "o", "n">>,
     <<"p", "r", "o", "c", "e", "e", "d">>}

explanation_triggers ==
    {<<"e", "x", "p", "l", "a", "i", "n">>,
     <<"w", "h", "a", "t", " ", "i", "s">>,
     <<"w", "h", "a", "t", " ", "a", "r", "e">>,
     <<"h", "o", "w", " ", "d", "o", "e", "s">>,
     <<"h", "o", "w", " ", "d", "o">>,
     <<"w", "h", "y", " ", "i", "s">>,
     <<"w", "h", "y", " ", "d", "o", "e", "s">>,
     <<"t", "e", "l", "l", " ", "m", "e", " ", "a", "b", "o", "u", "t">>,
     <<"d", "e", "s", "c", "r", "i", "b", "e">>,
     <<"c", "a", "n", " ", "y", "o", "u", " ", "e", "x", "p", "l", "a", "i", "n">>,
     <<"h", "e", "l", "p", " ", "m", "e", " ", "u", "n", "d", "e", "r", "s", "t", "a", "n", "d">>}

clarification_triggers ==
    {<<"w", "h", "a", "t", " ", "d", "o", " ", "y", "o", "u", " ", "m", "e", "a", "n">>,
     <<"i", " ", "d", "o", "n", "'", "t", " ", "u", "n", "d", "e", "r", "s", "t", "a", "n", "d">>,
     <<"c", "o", "n", "f", "u", "s", "e", "d">>,
     <<"s", "i", "m", "p", "l", "e", "r">>,
     <<"e", "x", "a", "m", "p", "l", "e">>,
     <<"a", "n", "a", "l", "o", "g", "y">>}

\* the explanation triggers are looked for before the message is known to be long
classify_expected_response_triggers_first(user_message) ==
    IF user_message = <<>> THEN "lesson_intro"
    ELSE LET message_lower == strip(lower(user_message))
         IN  IF \E trigger \in explanation_triggers : contains(message_lower, trigger)
             THEN "detailed_explanation"
             ELSE IF message_lower \in acknowledgment_phrases \/ Len(message_lower) < 10
             THEN "acknowledgment"
             ELSE IF \E trigger \in clarification_triggers : contains(message_lower, trigger)
             THEN "explanation"
             ELSE "default"

classify_expected_response(user_message) ==
    IF user_message = <<>> THEN "lesson_intro"
    ELSE LET message_lower == strip(lower(user_message))
         IN  IF message_lower \in acknowledgment_phrases \/ Len(message_lower) < 10
             THEN "acknowledgment"
             ELSE IF \E trigger \in explanation_triggers : contains(message_lower, trigger)
             THEN "detailed_explanation"
             ELSE IF \E trigger \in clarification_triggers : contains(message_lower, trigger)
             THEN "explanation"
             ELSE "default"

estimates ==
    [acknowledgment |-> 20, short_answer |-> 50, clarification |-> 80,
     explanation |-> 200, detailed_explanation |-> 400, lesson_intro |-> 300,
     day_summary |-> 250, plan_generation |-> 2000, default |-> 150]

\* estimates.get(message_type, estimates["default"])
estimate_response_tokens(message_type) ==
    IF message_type \in DOMAIN estimates THEN estimates[message_type]
    ELSE estimates["default"]

should_stream(expected_tokens) == expected_tokens >= STREAMING_TOKEN_THRESHOLD

\* the pieces the user messages of the model are made of
Words ==
    {<<" ">>,
     <<"o", "k">>,
     <<"I", " ", "U", "n", "d", "e", "r", "s", "t", "a", "n", "d">>,
     <<"e", "x", "p", "l", "a", "i", "n">>,
     <<"E", "x", "p", "l", "a", "i", "n", " ">>,
     <<" ", "r", "e", "c", "u", "r", "s", "i", "o", "n">>,
     <<"c", "o", "n", "f", "u", "s", "e", "d">>,
     <<"W", "h", "a", "t", " ", "d", "o", " ", "y", "o", "u", " ", "m", "e", "a", "n">>,
     <<"e", "d">>,
     <<"t", "h", "a", "n", "k", "s">>,
     <<"b", "i", "n", "a", "r", "y", " ", "t", "r", "e", "e", "s">>}

RECURSIVE Text(_)
Text(words) == IF words = <<>> THEN <<>> ELSE Head(words) \o Text(Tail(words))

UserMessages ==
    {Text(words) : words \in UNION {[1..n -> Words] : n \in 0..MaxWords}}

\* the message of the call is any of the user messages
InitClassify ==
    /\ session = NoSession
    /\ clock = 0
    /\ turn = Idle
    /\ pre = NoSession
    /\ last = Last("init", "ok", FALSE, NoResult, "")
    /\ graph = GraphIdle
    /\ memory = NoMemory
    /\ turns = NoTurns
    /\ \E user_message \in UserMessages :
           classified = [NotClassified EXCEPT !.user_message = user_message]

ClassifyExpectedResponse ==
    /\ ~classified.called
    /\ LET response_type == classify_expected_response(classified.user_message)
           expected_tokens == estimate_response_tokens(response_type)
       IN  classified' = [called |-> TRUE, user_message |-> classified.user_message,
                          response_type |-> response_type,
                          expected_tokens |-> expected_tokens,
                          streamed |-> should_stream(expected_tokens)]
    /\ UNCHANGED <<session, clock, turn, pre, last, graph, memory, turns>>

NextClassify == ClassifyExpectedResponse

SpecClassify == InitClassify /\ [][NextClassify]_vars

\* ------------------------------------------- send_message calls side by side
\* The route handlers are coroutines of one event loop: while a send_message
\* call awaits the graph, another call of the same session runs.  The writes
\* of a call before its await, and those after it, run without an await in
\* between.
ConcurrentDays == MaxDays + 1

\* create_plan ran to its end and stored a plan of total_days days
CreatePlanDone(total_days, days) ==
    /\ ~session.exists
    /\ Commit(update_lesson_plan(create_session(Here, total_days),
                                 GoodPlan(days), READY))
    /\ UNCHANGED <<turn, pre, last, graph, memory, turns, classified>>

\* send_message of call i up to its await on the graph
TurnBegin(i) ==
    /\ turns[i].pc = "idle"
    /\ session.exists
    /\ chat_allowed(session.status)
    /\ Commit(send_message_before_llm(Here))
    /\ turns' = [turns EXCEPT ![i] = [pc |-> "send_message", snap |-> session',
                                      result |-> NoResult]]
    /\ UNCHANGED <<turn, pre, last, graph, memory, classified>>

\* send_message of call i after the graph returned
TurnReturn(i, ai_response, should_advance_topic) ==
    /\ turns[i].pc = "send_message"
    /\ LET result == TutorResult(turns[i].snap, ai_response, should_advance_topic)
       IN  /\ Commit(send_message_after_llm(Here, result))
           /\ turns' = [turns EXCEPT ![i].pc = "done", ![i].result = result]
    /\ UNCHANGED <<turn, pre, last, graph, memory, classified>>

\* the graph of call i raised
TurnRaise(i) ==
    /\ turns[i].pc = "send_message"
    /\ turns' = [turns EXCEPT ![i].pc = "raised"]
    /\ UNCHANGED <<session, clock, turn, pre, last, graph, memory, classified>>

NextConcurrent ==
    \/ \E total_days \in 1..ConcurrentDays :
          \E days \in PlanDays(total_days) : CreatePlanDone(total_days, days)
    \/ \E i \in TurnIds : TurnBegin(i)
    \/ \E i \in TurnIds, ai_response \in BOOLEAN, should_advance_topic \in BOOLEAN :
          TurnReturn(i, ai_response, should_advance_topic)
    \/ \E i \in TurnIds : TurnRaise(i)

SpecConcurrent == Init /\ [][NextConcurrent]_vars

\* ------------------------------------------------- a process that stops
\* Every SessionService call of send_message commits on its own.  The
\* first k of the four statements after the graph call have run:
\* append_to_chat_history, advance_topic, advance_day, set_status(COMPLETED)
send_message_writes(d, result, k) ==
    LET d1 == IF k >= 1 /\ result.ai_response
              THEN append_to_chat_history(d) ELSE d
        d2 == IF k >= 2 /\ result.should_advance_topic
              THEN advance_topic(d1) ELSE d1
        d3 == IF k >= 3 /\ result.is_day_complete /\ ~result.is_course_complete
              THEN advance_day(d2) ELSE d2
    IN IF k >= 4 /\ result.is_course_complete
       THEN set_status(d3, COMPLETED) ELSE d3

\* the process stops in a send_message turn whose graph call answered (or
\* would have), after k of the statements that follow the call
SendMessageCrash(ai_response, should_advance_topic, k) ==
    /\ turn.pc = "send_message"
    /\ LET result == TutorResult(turn.snap, ai_response, should_advance_topic)
       IN  /\ Commit(send_message_writes(Here, result, k))
           /\ last' = Last("send_message", "crashed", TRUE, result, "")
    /\ turn' = Idle
    /\ UNCHANGED <<pre, graph, memory, turns, classified>>

NextCrash ==
    \/ Next
    \/ \E ai_response \in BOOLEAN, should_advance_topic \in BOOLEAN, k \in 0..3 :
          SendMessageCrash(ai_response, should_advance_topic, k)

SpecCrash == Init /\ [][NextCrash]_vars


\* ------------------------------------------------------------------ claims
HasGeneratedPlan(s) == s.exists /\ plan_is_successful(s.lesson_plan)

\* number of topics of the final day of the session's plan
TopicsOfFinalDay(s) == topics_in_day(s.lesson_plan, s.total_days)

\* C1: in every persisted state of a session with a generated plan,
\* 1 <= current_day <= total_days and
\* 0 <= current_topic_index <= number of topics of the entry for current_day.
C1_ProgressWithinPlan ==
    HasGeneratedPlan(session) =>
        /\ 1 <= session.current_day
        /\ session.current_day <= session.total_days
        /\ 0 <= session.current_topic_index
        /\ session.current_topic_index
             <= topics_in_day(session.lesson_plan, session.current_day)

\* C2: status COMPLETED implies current_day = total_days and
\* current_topic_index is past the last topic of the final day.
C2_CompletedMeansPastLastTopic ==
    (session.exists /\ session.status = COMPLETED) =>
        /\ session.current_day = session.total_days
        /\ session.current_topic_index >= TopicsOfFinalDay(session)

\* C3: COMPLETED and FAILED are terminal: no step of send_message,
\* start_lesson, advance_topic, advance_day, goto_day or update_progress
\* takes a session out of either status.
C3_TerminalStatuses ==
    [][(/\ session.exists
        /\ session'.exists
        /\ session.status \in {COMPLETED, FAILED})
       => session'.status = session.status]_vars

\* a COMPLETED session was moved to another day and is still COMPLETED
C3_Witness ==
    /\ last.op = "goto_day"
    /\ last.outcome = "ok"
    /\ pre.exists
    /\ pre.status = COMPLETED
    /\ session.current_day # pre.current_day
    /\ session.status = COMPLETED

BecomesCompleted ==
    /\ session'.exists
    /\ session'.status = COMPLETED
    /\ ~(session.exists /\ session.status = COMPLETED)

CourseCompleteTurn ==
    /\ last'.op = "send_message"
    /\ last'.outcome = "ok"
    /\ last'.result.is_course_complete

\* C4 as claimed: status becomes COMPLETED only in a send_message turn whose
\* graph result carries is_course_complete.
C4_CompletedOnlyByCourseCompleteSignal ==
    [][BecomesCompleted => CourseCompleteTurn]_vars

\* a step that ran update_progress
ProgressUpdateStep ==
    \/ /\ last'.op \in {"update_progress", "goto_day", "advance_topic",
                        "advance_day", "advance_day_route"}
       /\ last'.outcome = "ok"
    \/ /\ last'.op = "start_lesson"
       /\ last'.outcome = "await"
       /\ turn'.day # None
    \/ /\ last'.op = "send_message"
       /\ last'.outcome = "ok"
       /\ last'.result.should_advance_topic

\* C4 as amended: status becomes COMPLETED only in a send_message turn whose
\* result carries is_course_complete, or in a step that ran update_progress
\* and left current_day >= total_days with current_topic_index at or past
\* the last topic index of the plan's last day.
C4_CompletedBySignalOrProgressCheck ==
    [][BecomesCompleted =>
         \/ CourseCompleteTurn
         \/ /\ ProgressUpdateStep
            /\ session'.current_day >= session'.total_days
            /\ Len(days_of(session'.lesson_plan)) >= 1
            /\ session'.current_topic_index >= TopicsOfFinalDay(session') - 1]_vars

\* goto_day alone completed a session that was not COMPLETED
C4_Witness ==
    /\ last.op = "goto_day"
    /\ last.outcome = "ok"
    /\ pre.exists
    /\ pre.status # COMPLETED
    /\ session.exists
    /\ session.status = COMPLETED

AllowedStatusChanges ==
    {<<PLANNING, READY>>, <<PLANNING, FAILED>>,
     <<READY, IN_PROGRESS>>, <<IN_PROGRESS, COMPLETED>>}

\* C5: every status change is PLANNING->READY, PLANNING->FAILED,
\* READY->IN_PROGRESS or IN_PROGRESS->COMPLETED, and a session is created in
\* PLANNING with no lesson_plan, current_day 1 and current_topic_index 0.
C5_StatusLifecycle ==
    [][/\ (session.exists /\ session'.exists
            /\ session'.status # session.status)
          => <<session.status, session'.status>> \in AllowedStatusChanges
       /\ (~session.exists /\ session'.exists)
          => /\ session'.status = PLANNING
             /\ session'.lesson_plan = NoPlan
             /\ session'.current_day = 1
             /\ session'.current_topic_index = 0]_vars

\* the last operation ran advance_topic on the row in pre
RanAdvanceTopic ==
    \/ last.op = "advance_topic" /\ last.outcome = "ok"
    \/ /\ last.op = "send_message"
       /\ last.outcome = "ok"
       /\ last.result.should_advance_topic

\* C6: when advance_topic pushes current_topic_index past the final topic
\* index while current_day = total_days, on a plan whose last day has at
\* least one topic, the session is COMPLETED with completed_at set.
C6_LastTopicCompletes ==
    (/\ RanAdvanceTopic
     /\ HasGeneratedPlan(pre)
     /\ pre.current_day = pre.total_days
     /\ TopicsOfFinalDay(pre) >= 1
     /\ session.exists
     /\ session.current_topic_index > TopicsOfFinalDay(pre) - 1)
    => /\ session.status = COMPLETED
       /\ session.completed_at # None

\* advance_topic on its own moved a session that was not COMPLETED from the
\* last topic of the last day to the index past it
C6_Witness ==
    /\ last.op = "advance_topic"
    /\ last.outcome = "ok"
    /\ HasGeneratedPlan(pre)
    /\ pre.status # COMPLETED
    /\ pre.current_day = pre.total_days
    /\ TopicsOfFinalDay(pre) >= 1
    /\ pre.current_topic_index = TopicsOfFinalDay(pre) - 1
    /\ session.current_topic_index = TopicsOfFinalDay(pre)
    /\ session.status = COMPLETED

\* C7: completed_at is set once: no step on a COMPLETED session changes it.
C7_CompletedAtSetOnce ==
    [][(/\ session.exists
        /\ session'.exists
        /\ session.status = COMPLETED)
       => session'.completed_at = session.completed_at]_vars

\* C8: when the graph invocation of send_message raises, the persisted
\* session is what it was before the call.
C8_LlmFailureLeavesSessionUnchanged ==
    (last.op = "send_message" /\ last.outcome = "raised") => session = pre

\* C9: send_message on a missing session or on a PLANNING, COMPLETED or
\* FAILED session is rejected, invokes no graph and changes no field.
C9_SendMessageRejected ==
    (/\ last.op = "send_message"
     /\ (~pre.exists \/ pre.status \in {PLANNING, COMPLETED, FAILED}))
    => /\ last.outcome = "rejected"
       /\ ~last.invoked
       /\ session = pre
       /\ turn.pc # "send_message"

\* send_message was called on a COMPLETED session
C9_Witness ==
    /\ last.op = "send_message"
    /\ last.outcome = "rejected"
    /\ pre.exists
    /\ pre.status = COMPLETED
    /\ session = pre

\* C10: a create_plan call that created a session ends with the session
\* READY and an error-free lesson_plan, or FAILED with the error payload,
\* and a returned status is the persisted status.
C10_CreatePlanEndsReadyOrFailed ==
    (/\ last.op \in {"create_plan", "create_dsa_plan"}
     /\ last.outcome \in {"ok", "raised"})
    => /\ session.exists
       /\ \/ session.status = READY /\ plan_is_successful(session.lesson_plan)
          \/ session.status = FAILED /\ session.lesson_plan = ErrorPlan
       /\ last.outcome = "ok" => last.ret_status = session.status

\* C11: in every mode, a plan response that is not parseable JSON, or is JSON
\* without a days array, leaves the session FAILED and never READY, after one
\* call of the plan LLM.
C11_MalformedPlanResponseFails ==
    (/\ last.op \in {"create_plan", "create_dsa_plan"}
     /\ last.outcome \in {"ok", "raised"}
     /\ session.exists
     /\ Len(days_of(session.lesson_plan)) = 0)
    => /\ session.status = FAILED
       /\ last.invoked

\* the nodes a completed invocation must have run, in order
ExpectedTrace(incoming) ==
    IF ~incoming.present THEN <<"plan_generator_node", "tutor_node">>
    ELSE <<"tutor_node">>

\* C12: in every graph invocation, an incoming state without lesson_plan
\* runs the plan generator first and the tutor after it, one with a
\* lesson_plan runs the tutor and not the plan generator, and the tutor is
\* the last node before END.
C12_GraphRouting ==
    /\ graph.pc = "END" => graph.trace = ExpectedTrace(graph.incoming)
    /\ graph.pc \in {"plan_generator_node", "tutor_node", "raised"}
          => /\ Len(graph.trace) <= Len(ExpectedTrace(graph.incoming))
             /\ graph.trace = SubSeq(ExpectedTrace(graph.incoming), 1, Len(graph.trace))
    /\ graph.pc \in GraphNodes
          => ExpectedTrace(graph.incoming)[Len(graph.trace) + 1] = graph.pc

\* an invocation without a lesson_plan ended after both nodes ran
C12_Witness ==
    /\ graph.pc = "END"
    /\ ~graph.incoming.present
    /\ graph.trace = <<"plan_generator_node", "tutor_node">>
    /\ graph.state.lesson_plan.present

\* an add_user_message or add_assistant_message call has returned
AddCompleted ==
    /\ memory.pc = "idle"
    /\ memory.op \in {"add_user_message", "add_assistant_message"}
    /\ memory.outcome = "ok"

\* the call appended one message and summarized nothing
AppendedOnly ==
    /\ Len(memory.buffer) = Len(memory.pre_buffer) + 1
    /\ SubSeq(memory.buffer, 1, Len(memory.pre_buffer)) = memory.pre_buffer
    /\ memory.summaries = memory.pre_summaries
    /\ memory.calls = 0

\* the call made one summarizer call, emptied the buffer and added one summary
SummarizedOnce ==
    /\ memory.calls = 1
    /\ Len(memory.buffer) = 0
    /\ Len(memory.summaries) = Len(memory.pre_summaries) + 1
    /\ SubSeq(memory.summaries, 1, Len(memory.pre_summaries)) = memory.pre_summaries

RECURSIVE SummarizedLines(_)
SummarizedLines(summaries) ==
    IF Len(summaries) = 0 THEN <<>>
    ELSE summaries[1].summary_of \o SummarizedLines(Tail(summaries))

\* the buffer a summarization of the last call works on: the buffer as the
\* call found it, and the message the call appended
BufferAtAttempt ==
    IF memory.op = "add_assistant_message"
    THEN Append(memory.pre_buffer, memory.log[Len(memory.log)])
    ELSE memory.pre_buffer

\* C14: when the summarizer fails, the buffer and the summary list are as
\* they were and the error reaches the caller; a later successful
\* summarization (force_summarize or the next threshold check) summarizes
\* all the turns that were left, so every turn ever added is in a summary
\* or in the buffer, in order.
C14_FailedSummarizationKeepsTurns ==
    /\ (memory.pc = "idle" /\ memory.outcome = "raised")
          => /\ memory.calls = 1
             /\ memory.buffer = BufferAtAttempt
             /\ memory.summaries = memory.pre_summaries
    /\ (memory.pc = "idle" /\ memory.outcome = "ok" /\ memory.calls = 1)
          => /\ memory.buffer = <<>>
             /\ memory.summaries =
                    Append(memory.pre_summaries,
                           generate_summary(format_messages_for_summary(BufferAtAttempt)))
    /\ SummarizedLines(memory.summaries) \o format_messages_for_summary(memory.buffer)
          = format_messages_for_summary(memory.log)

\* force_summarize succeeded after an earlier summarization had failed, and
\* its summary is the first one
C14_Witness ==
    /\ memory.pc = "idle"
    /\ memory.op = "force_summarize"
    /\ memory.outcome = "ok"
    /\ memory.calls = 1
    /\ memory.failed_before
    /\ Len(memory.summaries) = 1
    /\ Len(memory.summaries[1].summary_of) >= buffer_threshold

\* C15: after every completed add_user_message or add_assistant_message
\* call, whatever the calls before it and however their summarizations
\* ended, the buffer is no longer than the threshold.
C15_BufferWithinThreshold ==
    AddCompleted => Len(memory.buffer) <= buffer_threshold

\* the context of the last get_context_for_graph call is every summary in
\* creation order in memory_summary (None without a summary) and every
\* buffered turn in insertion order in chat_history, which together are
\* every turn ever added
ContextIsSummariesThenBuffer ==
    LET text == memory.context.memory_summary.text
        n == Len(memory.summaries)
    IN  /\ memory.context.memory_summary.is_none <=> n = 0
        /\ n = 0 => text = <<>>
        /\ n > 0 => /\ Len(text) = 2 * n - 1
                    /\ \A i \in 1..n : text[2 * i - 1] = memory.summaries[i]
        /\ memory.context.chat_history = memory.buffer
        /\ SummarizedLines(memory.summaries)
              \o format_messages_for_summary(memory.context.chat_history)
              = format_messages_for_summary(memory.log)

AdvanceCall ==
    /\ last.op \in {"advance_topic", "advance_day", "advance_day_route", "send_message"}
    /\ last.outcome = "ok"
    /\ pre.exists
    /\ session.exists
    /\ session.lesson_plan = pre.lesson_plan

\* C17: for a fixed lesson plan the value of calculate_progress_percentage
\* never decreases along advance_topic and advance_day calls; it is 0.0 for
\* a session without a plan or with a plan without topics; it is always
\* between 0 and 100 (here in tenths of a percent).
C17_ProgressPercentageMonotone ==
    /\ AdvanceCall
          => calculate_progress_percentage(session)
                >= calculate_progress_percentage(pre)
    /\ (\/ ~session.lesson_plan.present
        \/ total_topics(days_of(session.lesson_plan)) = 0)
          => calculate_progress_percentage(session) = 0
    /\ calculate_progress_percentage(session) \in 0..1000

\* advance_day moved a session from the first day of a 2 + 1 topic plan to
\* the second: the percentage rose from 0.0 to 66.7
C17_Witness ==
    /\ last.op = "advance_day"
    /\ last.outcome = "ok"
    /\ pre.exists
    /\ session.exists
    /\ session.current_day = pre.current_day + 1
    /\ calculate_progress_percentage(pre) = 0
    /\ calculate_progress_percentage(session) = 667

\* C18: advance_day on a session whose current_day equals total_days leaves
\* the whole row as it was, updated_at included (the route rejects the
\* request); on a session with current_day below total_days it sets
\* current_day to current_day + 1 and current_topic_index to 0.
C18_AdvanceDayFrame ==
    (/\ last.op \in {"advance_day", "advance_day_route"}
     /\ pre.exists)
    => /\ pre.current_day = pre.total_days
          => /\ session = pre
             /\ last.op = "advance_day_route" => last.outcome = "rejected"
       /\ pre.current_day < pre.total_days
          => /\ last.outcome = "ok"
             /\ session.current_day = pre.current_day + 1
             /\ session.current_topic_index = 0

\* advance_day ran on the last day of a session that had progress in it
C18_Witness ==
    /\ last.op = "advance_day"
    /\ last.outcome = "ok"
    /\ pre.exists
    /\ pre.current_day = pre.total_days
    /\ pre.current_topic_index > 0
    /\ session = pre

\* C19: goto_day(d) with 1 <= d <= total_days sets current_day to d and
\* current_topic_index to 0 and does not alter the status, for every such d
\* (d = total_days included) and every plan shape; a d outside the range is
\* rejected and the session is unchanged.
C19_GotoDayKeepsStatus ==
    (/\ last.op = "goto_day"
     /\ pre.exists)
    => IF last.day >= 1 /\ last.day <= pre.total_days
       THEN /\ last.outcome = "ok"
            /\ session.current_day = last.day
            /\ session.current_topic_index = 0
            /\ session.status = pre.status
       ELSE /\ last.outcome = "rejected"
            /\ session = pre

\* C20: current_day never exceeds total_days: update_progress with any
\* current_day, and advance_day any number of times, leave
\* current_day <= total_days.
C20_CurrentDayWithinTotalDays ==
    session.exists => session.current_day <= session.total_days

\* update_progress was asked for a day past total_days and stored total_days
C20_Witness ==
    /\ last.op = "update_progress"
    /\ last.outcome = "ok"
    /\ pre.exists
    /\ last.day > pre.total_days
    /\ pre.current_day < pre.total_days
    /\ session.current_day = session.total_days

\* the calls that run on a session after its plan was generated
AfterPlanOps ==
    {"send_message", "start_lesson", "advance_topic", "advance_day",
     "advance_day_route", "goto_day", "update_progress"}

\* C21: lesson_plan is written at most once per session: once create_plan
\* has moved the session to READY or FAILED, no send_message, start_lesson,
\* advance_topic, advance_day, goto_day or update_progress call changes it.
C21_LessonPlanWrittenOnce ==
    (/\ last.op \in AfterPlanOps
     /\ pre.exists
     /\ pre.status # PLANNING)
    => /\ session.exists
       /\ session.lesson_plan = pre.lesson_plan

\* a send_message turn advanced the topic of a generated plan and left the
\* plan as it was
C21_Witness ==
    /\ last.op = "send_message"
    /\ last.outcome = "ok"
    /\ last.result.should_advance_topic
    /\ pre.exists
    /\ pre.status = READY
    /\ plan_is_successful(pre.lesson_plan)
    /\ session.current_topic_index = pre.current_topic_index + 1
    /\ session.lesson_plan = pre.lesson_plan

\* both calls ran to their end, and both were built from the same observed
\* current_day and current_topic_index
BothTurnsFromOneSnapshot ==
    /\ \A i \in TurnIds : turns[i].pc = "done"
    /\ turns[1].snap.current_topic_index = turns[2].snap.current_topic_index
    /\ turns[1].snap.current_day = turns[2].snap.current_day

\* C22: turns of one session are not serialized.  Two send_message turns
\* built from the same observed index N whose results both carry
\* should_advance_topic leave the persisted index at N + 2; when both carry
\* is_day_complete (and not is_course_complete) current_day advances by 2,
\* as far as total_days allows.  A turn that runs alone raises
\* current_topic_index by at most 1 and current_day by at most 1.
C22_InterleavedTurnsDoubleAdvance ==
    /\ (/\ BothTurnsFromOneSnapshot
        /\ \A i \in TurnIds : /\ turns[i].result.should_advance_topic
                              /\ ~turns[i].result.is_day_complete)
          => /\ session.current_topic_index = turns[1].snap.current_topic_index + 2
             /\ session.current_day = turns[1].snap.current_day
    /\ (/\ BothTurnsFromOneSnapshot
        /\ \A i \in TurnIds : /\ turns[i].result.is_day_complete
                              /\ ~turns[i].result.is_course_complete)
          => session.current_day
                = Min(turns[1].snap.current_day + 2, session.total_days)
    /\ \A i \in TurnIds :
          (/\ turns[i].pc = "done"
           /\ \A j \in TurnIds \ {i} : turns[j].pc = "idle")
          => /\ session.current_topic_index <= turns[i].snap.current_topic_index + 1
             /\ session.current_day <= turns[i].snap.current_day + 1

\* two turns built from index 0 both advanced the topic: the index is 2
C22_Witness ==
    /\ BothTurnsFromOneSnapshot
    /\ \A i \in TurnIds : /\ turns[i].result.should_advance_topic
                          /\ ~turns[i].result.is_day_complete
    /\ turns[1].snap.current_topic_index = 0
    /\ session.current_topic_index = 2

\* two turns built from day 1 both completed the day: the day is 3
C22_WitnessDay ==
    /\ BothTurnsFromOneSnapshot
    /\ \A i \in TurnIds : /\ turns[i].result.is_day_complete
                          /\ ~turns[i].result.is_course_complete
    /\ turns[1].snap.current_day = 1
    /\ session.current_day = 3

\* C23: every graph invocation makes exactly one LLM call: on both entry
\* routes exactly one LLM-calling node has run when the graph is at END.
C23_OneLlmCallPerInvocation ==
    graph.pc = "END" => graph.llm_calls = 1

\* C24: in start_lesson and send_message every write to the persisted
\* session happens after the graph call of the turn has returned: while the
\* call is awaited, and when it has raised, the session is as it was when
\* the turn was called.
C24_WritesOnlyAfterLlmReturn ==
    (/\ last.op \in {"send_message", "start_lesson"}
     /\ last.outcome \in {"await", "raised"})
    => session = pre

\* what a client sees of a session, timestamps aside
Persisted(s) ==
    [exists |-> s.exists, status |-> s.status, lesson_plan |-> s.lesson_plan,
     current_day |-> s.current_day,
     current_topic_index |-> s.current_topic_index,
     chat_history |-> s.chat_history]

\* the session a send_message turn with this result leaves when it runs to
\* its end on row s
FullPostTurn(s, result) ==
    send_message_after_llm(send_message_before_llm(Db(s, 0)), result).s

\* C25: a process that stops at any point of a send_message turn leaves the
\* persisted session either as it was before the turn or as the whole turn
\* would have left it, never in a state in between.
C25_CrashLeavesPreOrPostState ==
    (/\ last.op = "send_message"
     /\ last.outcome = "crashed")
    => \/ Persisted(session) = Persisted(pre)
       \/ Persisted(session) = Persisted(FullPostTurn(pre, last.result))

\* C26: with is_day_complete = should_advance_topic and index + 1 >= number
\* of topics of the current day, and is_course_complete = is_day_complete and
\* current_day = total_days, a serialized send_message turn leaves day and
\* index unchanged without a signal, adds exactly 1 to the index with
\* should_advance_topic alone, adds exactly 1 to the day and leaves index 0
\* with is_day_complete and not is_course_complete, and leaves
\* current_day = total_days and status COMPLETED with is_course_complete.
C26_TurnProgress ==
    (/\ last.op = "send_message"
     /\ last.outcome = "ok")
    => LET r == last.result
       IN  /\ r.is_day_complete
                <=> /\ r.should_advance_topic
                    /\ pre.current_topic_index + 1
                         >= topics_in_day(pre.lesson_plan, pre.current_day)
           /\ r.is_course_complete
                <=> (r.is_day_complete /\ pre.current_day = pre.total_days)
           /\ ~r.should_advance_topic
                => /\ session.current_day = pre.current_day
                   /\ session.current_topic_index = pre.current_topic_index
           /\ (r.should_advance_topic /\ ~r.is_day_complete)
                => /\ session.current_day = pre.current_day
                   /\ session.current_topic_index = pre.current_topic_index + 1
           /\ (r.is_day_complete /\ ~r.is_course_complete)
                => /\ session.current_day = pre.current_day + 1
                   /\ session.current_topic_index = 0
           /\ r.is_course_complete
                => /\ session.current_day = session.total_days
                   /\ session.status = COMPLETED

\* a turn completed day 1 of a two-day plan: the session is at day 2, index 0
C26_Witness ==
    /\ last.op = "send_message"
    /\ last.outcome = "ok"
    /\ last.result.is_day_complete
    /\ ~last.result.is_course_complete
    /\ pre.current_day = 1
    /\ topics_in_day(pre.lesson_plan, 1) >= 1
    /\ session.current_day = 2
    /\ session.current_topic_index = 0

\* C28: after every serialized send_message turn that returns normally, the
\* returned is_course_complete flag is true exactly when the persisted
\* status is COMPLETED (the returned current_day and current_topic_index are
\* read from the persisted row after the writes).
C28_ReturnedFlagMatchesStatus ==
    (/\ last.op = "send_message"
     /\ last.outcome = "ok")
    => (last.result.is_course_complete <=> session.status = COMPLETED)

\* C29: no tutoring LLM call and no chat-history write is made for a session
\* whose status is PLANNING or FAILED: send_message and start_lesson reject
\* such a session before they invoke the graph.
C29_NoTutoringForPlanningOrFailed ==
    (/\ last.op \in {"send_message", "start_lesson"}
     /\ pre.exists
     /\ pre.status \in {PLANNING, FAILED})
    => /\ last.outcome = "rejected"
       /\ ~last.invoked
       /\ session.chat_history = pre.chat_history

\* how often the turn with this content is in the buffer or in the
\* transcript of a stored summary
TimesKept(content) ==
    Cardinality({i \in 1..Len(memory.buffer) : memory.buffer[i].content = content})
    + Cardinality({i \in 1..Len(SummarizedLines(memory.summaries)) :
                     SummarizedLines(memory.summaries)[i].content = content})

\* C30: under any interleaving of add_user_message / add_assistant_message
\* with an in-flight _summarize_buffer, every recorded turn is still in the
\* buffer or was part of the transcript of exactly one stored summary: no
\* turn is dropped unsummarized and none is summarized twice.
C30_NoTurnDroppedOrSummarizedTwice ==
    \A i \in 1..Len(memory.log) : TimesKept(memory.log[i].content) = 1

\* C27 as stated: every message shorter than 10 characters or equal to an
\* acknowledgment phrase is an acknowledgment, every other message that
\* contains an explanation trigger is a detailed explanation, every other
\* message is of the default category, and the response is streamed exactly
\* when the category's token estimate reaches the threshold.
C27_ThreeCategories ==
    classified.called =>
        LET m == classified.user_message
            short == Len(m) < 10 \/ m \in acknowledgment_phrases
            triggered == \E trigger \in explanation_triggers : contains(lower(m), trigger)
        IN  /\ classified.response_type =
                   IF short THEN "acknowledgment"
                   ELSE IF triggered THEN "detailed_explanation"
                   ELSE "default"
            /\ classified.streamed <=>
                   estimate_response_tokens(classified.response_type)
                       >= STREAMING_TOKEN_THRESHOLD

\* C27 (amended): the empty message is a lesson introduction; a message
\* whose lowercased, stripped text is shorter than 10 characters or an
\* acknowledgment phrase is an acknowledgment, whatever it contains; the
\* category is a detailed explanation exactly when the text is longer and
\* contains an explanation trigger, an explanation exactly when it is longer
\* and contains a clarification trigger and no explanation trigger, and the
\* default for every other message; the response is streamed exactly when
\* the category is not the acknowledgment.
C27_FiveCategories ==
    classified.called =>
        LET m == classified.user_message
            text == strip(lower(m))
            long == m # <<>> /\ Len(text) >= 10 /\ text \notin acknowledgment_phrases
            explaining == \E trigger \in explanation_triggers : contains(text, trigger)
            clarifying == \E trigger \in clarification_triggers : contains(text, trigger)
            type == classified.response_type
        IN  /\ type \in {"lesson_intro", "acknowledgment", "detailed_explanation",
                         "explanation", "default"}
            /\ type = "lesson_intro" <=> m = <<>>
            /\ type = "acknowledgment" <=> m # <<>> /\ ~long
            /\ type = "detailed_explanation" <=> long /\ explaining
            /\ type = "explanation" <=> long /\ clarifying /\ ~explaining
            /\ classified.streamed <=> type # "acknowledgment"
            /\ classified.expected_tokens = estimate_response_tokens(type)

\* a message under 10 characters that contains an explanation trigger was
\* classified as an acknowledgment and is not streamed
C27_Witness ==
    /\ classified.called
    /\ \E trigger \in explanation_triggers :
           contains(lower(classified.user_message), trigger)
    /\ classified.response_type = "acknowledgment"
    /\ ~classified.streamed

====
